---- MODULE Spec2Model ----
(***************************************************************************)
(* Model of the status-resolution engine of tray-vpn-monitor (src/main.py):*)
(* the VPNWorker session fields, the nmcli listener with its debounce      *)
(* timer, the perform_check pass guarded by _check_lock, and the tray      *)
(* actions that start passes (start, Check Now, toggle_monitoring).        *)
(* A step is a run of statements of one thread around one access to a      *)
(* field that another thread can touch at that moment (enabled,            *)
(* is_resolving, last_status, the lock, the Timer); statements that work   *)
(* on locals, on the network or on api_count (touched under the lock only) *)
(* are joined to a neighbouring step.  perform_check has locals only       *)
(* inside its with block, so loc holds the locals of the pass that is      *)
(* inside it (Serialization below: there is at most one).                  *)
(* Faulty variants of some steps (named after what they get wrong) are     *)
(* defined next to the step they vary.                                     *)
(***************************************************************************)
EXTENDS Integers, Sequences, FiniteSets, TLC

(* ---------------------------------------------------------------- bounds *)
\* external events in a run: qualifying lines read from nmcli monitor, clicks on
\* "Check Now", clicks on the Disable/Enable entry, exceptions raised in a pass
MaxEvents == 3
\* network interfaces present on the host
MaxIfaces == 2

(* ------------------------------------------------------------- constants *)
\* range(1, 4) in _has_internet: attempts 1, 2, 3
LastAttempt == 3

None == "None"
NoThread == <<"none", 0>>

ForcedSources == {"Init", "Manual", "Toggle"}

\* the threads that run perform_check, one per trigger: start(), the k-th
\* click on Check Now, the k-th click on the toggle entry (the ones that
\* enable), the Timer armed for line k
InitThread == <<"Init", 1>>
ManualThreads == {<<"Manual", k>> : k \in 1..MaxEvents}
ToggleThreads == {<<"Toggle", k>> : k \in {j \in 1..MaxEvents : j % 2 = 0}}
AutoThreads == {<<"Auto", k>> : k \in 1..MaxEvents}
Threads == {InitThread} \cup ManualThreads \cup ToggleThreads \cup AutoThreads

source(t) == t[1]

VARIABLES
  enabled,          \* VPNWorker.enabled
  last_status,      \* VPNWorker.last_status
  is_resolving,     \* VPNWorker.is_resolving
  api_count,        \* VPNWorker.api_count
  check_lock,       \* holder of VPNWorker._check_lock, or NoThread
  debounce_timer,   \* VPNWorker._debounce_timer: index of the Timer object, 0 = None
  timers,           \* state of the Timer object created for line k
  lpc,              \* position of the _listen thread
  nlines,           \* qualifying lines read from the nmcli stream so far
  pc,               \* position of each perform_check thread
  loc,              \* locals of the pass that is inside the with block
  toggles,          \* clicks on the toggle entry so far
  manuals,          \* clicks on Check Now so far
  failures,         \* unexpected exceptions raised so far
  status_out,       \* last classification delivered by status_changed
  api_log,          \* totals delivered by api_called, in order
  unbroken,         \* no qualifying line was taken up after its predecessor's Timer fired
  cleared           \* line 80 has run and no pass has completed since

session == <<enabled, last_status, is_resolving, api_count>>
listener == <<debounce_timer, timers, lpc, nlines, unbroken, cleared>>
env == <<toggles, manuals, failures>>
outputs == <<status_out, api_log>>
vars == <<session, check_lock, listener, pc, loc, env, outputs>>

\* external events so far
Events == nlines + manuals + toggles + failures

\* locals of a pass (active_vpn .. state_changed) and the record of what the
\* pass has done and found so far (emitted .. out_before)
LocInit ==
  [active_vpn |-> FALSE, is_online |-> FALSE, current_status |-> None,
   state_changed |-> FALSE, emitted |-> 0, logged |-> FALSE, fetched |-> FALSE,
   armed |-> FALSE, failed |-> FALSE, critical |-> FALSE, red |-> FALSE,
   res_at_entry |-> FALSE, api_before |-> 0, out_before |-> None]

\* VPNWorker.__init__ (lines 18-26), then start() (lines 28-31)
Init ==
  /\ enabled = TRUE
  /\ last_status = None
  /\ is_resolving = FALSE
  /\ api_count = 0
  /\ check_lock = NoThread
  /\ debounce_timer = 0
  /\ timers = [k \in 1..MaxEvents |-> "unborn"]
  /\ lpc = "read"
  /\ nlines = 0
  /\ pc = [t \in Threads |-> IF t = InitThread THEN "start" ELSE "off"]
  /\ loc = LocInit
  /\ toggles = 0
  /\ manuals = 0
  /\ failures = 0
  /\ status_out = None
  /\ api_log = <<>>
  /\ unbroken = TRUE
  /\ cleared = FALSE

(* ------------------------------------------------------ Interface Scanner *)
\* interface names as character sequences, so that startswith is computed
tun0 == <<"t", "u", "n", "0">>
wg0 == <<"w", "g", "0">>
ppp0 == <<"p", "p", "p", "0">>
eth0 == <<"e", "t", "h", "0">>
IfaceNames == {tun0, wg0, ppp0, eth0}

\* what reading /sys/class/net/<iface>/operstate gives after strip().lower():
\* the kernel's word, or "unreadable" when open/read raises
OperStates == {"up", "down", "unknown", "unreadable"}

VpnPrefixes == {<<"t", "u", "n">>, <<"w", "g">>, <<"p", "p", "p">>}

StartsWith(name, prefix) ==
  /\ Len(name) >= Len(prefix)
  /\ SubSeq(name, 1, Len(prefix)) = prefix

\* a host: whether os.listdir succeeds, and the operstate of each interface
\* present (at most MaxIfaces of them)
NetConfigs ==
  {[listable |-> l, state |-> st] :
     l \in BOOLEAN,
     st \in UNION {[D -> OperStates] :
                     D \in {S \in SUBSET IfaceNames : Cardinality(S) <= MaxIfaces}}}

\* variant: the except branch of line 64 returns True
IsInterfaceActiveOnError(st) ==
  IF st = "unreadable" THEN TRUE ELSE st # "down"

\* lines 61-64
IsInterfaceActive(st) ==
  IF st = "unreadable" THEN FALSE ELSE st # "down"

ScanActiveVpn(cfg) ==
  LET interfaces == IF cfg.listable THEN DOMAIN cfg.state ELSE {}
      vpn_ifaces == {n \in interfaces : \E p \in VpnPrefixes : StartsWith(n, p)}
  IN IF vpn_ifaces # {}
       THEN \E n \in vpn_ifaces : IsInterfaceActive(cfg.state[n])
       ELSE FALSE

(* ---------------------------------------------------- Connectivity Prober *)
\* _has_internet, lines 51-58: outcome[i] tells whether urlopen succeeds at
\* attempt i; the loop returns at the first success, sleeps after a failure
\* only when i < 3, and returns False after the third failure
\* (attempts: urlopen calls made; sleeps: time.sleep(1.2) calls made)
RECURSIVE HasInternetFrom(_, _)
HasInternetFrom(i, outcome) ==
  IF i > LastAttempt
    THEN [online |-> FALSE, attempts |-> LastAttempt, sleeps |-> 0]
  ELSE IF outcome[i] THEN [online |-> TRUE, attempts |-> i, sleeps |-> 0]
  ELSE LET rest == HasInternetFrom(i + 1, outcome)
       IN [rest EXCEPT !.sleeps = @ + (IF i < LastAttempt THEN 1 ELSE 0)]

\* variant: the loop written range(2, 4)
HasInternetFromSecond(outcome) == HasInternetFrom(2, outcome)

HasInternet(outcome) == HasInternetFrom(1, outcome)

AttemptOutcomes == [1..LastAttempt -> BOOLEAN]

\* what a scan and a reachability check can return, over all hosts and networks
ScanResults == {ScanActiveVpn(cfg) : cfg \in NetConfigs}
ProbeResults == {HasInternet(outcome) : outcome \in AttemptOutcomes}

\* _track_api, line 34
TrackApi(count) == count + 1

(* -------------------------------------------------------- State Resolver *)
\* variant: the elif tests active_vpn instead of is_online
ClassifyVpnFirst(active_vpn, is_online) ==
  IF active_vpn /\ is_online THEN "green"
  ELSE IF active_vpn THEN "blue"
  ELSE "red"

\* lines 103-108
Classify(active_vpn, is_online) ==
  IF active_vpn /\ is_online THEN "green"
  ELSE IF is_online THEN "blue"
  ELSE "red"

\* line 111
forced_check(t) == source(t) \in ForcedSources

\* variant: emit only on a change
ShouldEmitOnChange(state_changed, resolving, forced) ==
  state_changed

\* line 113
ShouldEmit(state_changed, resolving, forced) ==
  state_changed \/ resolving \/ forced

\* variant: every Manual pass fetches, online or not
ShouldFetchIpAnyManual(current_status, src, is_online) ==
  current_status = "blue" \/ src = "Manual"

\* line 119
ShouldFetchIp(current_status, src, is_online) ==
  current_status = "blue" \/ (src = "Manual" /\ is_online)

\* variant: the forced sources left out of the test
ShouldNotifyOnChange(current_status, state_changed, forced) ==
  current_status = "blue" /\ state_changed

\* variant: every 'blue' pass requests the notification
ShouldNotifyAnyBlue(current_status, state_changed, forced) ==
  current_status = "blue"

\* line 125
ShouldNotify(current_status, state_changed, forced) ==
  current_status = "blue" /\ (state_changed \/ forced)

\* pcs of the statements inside the try block (lines 94-128)
TryPcs == {"probe", "classify", "set_last", "clear", "emit", "finish"}
\* of these, the steps that call out of the method and can raise: lines 94-101
\* (log_added and api_called signals, line 49-50), line 116 (status_changed
\* signal), lines 118-128 (signals, Timer.start)
RaisingPcs == {"probe", "emit", "finish"}
\* pcs at which the thread is inside the with block
LockedPcs == TryPcs \cup {"x131", "x133", "release"}

\* line 87: if not self.enabled: return
Start(t) ==
  /\ pc[t] = "start"
  /\ pc' = [pc EXCEPT ![t] = IF enabled THEN "wait" ELSE "off"]
  /\ UNCHANGED <<session, check_lock, listener, loc, env, outputs>>

\* variant: the body entered without waiting for the lock
EnterWithoutLock(t) ==
  /\ pc[t] = "wait"
  /\ check_lock' = t
  /\ loc' = [loc EXCEPT !.res_at_entry = is_resolving,
                        !.api_before = api_count,
                        !.out_before = status_out]
  /\ is_resolving' = TRUE
  /\ pc' = [pc EXCEPT ![t] = "probe"]
  /\ UNCHANGED <<enabled, last_status, api_count, listener, env, outputs>>

\* lines 88-91: take the lock; mark the session resolving (emitting 'yellow')
\* unless it is marked already
Enter(t) ==
  /\ pc[t] = "wait"
  /\ check_lock = NoThread
  /\ check_lock' = t
  /\ loc' = [loc EXCEPT !.res_at_entry = is_resolving,
                        !.api_before = api_count,
                        !.out_before = status_out]
  /\ is_resolving' = TRUE
  /\ pc' = [pc EXCEPT ![t] = "probe"]
  /\ UNCHANGED <<enabled, last_status, api_count, listener, env, outputs>>

\* variant: _track_api called once per urlopen attempt
ProbeCountingAttempts(t) ==
  /\ pc[t] = "probe"
  /\ \E active_vpn \in ScanResults, r \in ProbeResults :
       /\ loc' = [loc EXCEPT !.active_vpn = active_vpn,
                             !.is_online = r.online]
       /\ api_count' = api_count + r.attempts
  /\ api_log' = Append(api_log, api_count')
  /\ pc' = [pc EXCEPT ![t] = "classify"]
  /\ UNCHANGED <<enabled, last_status, is_resolving, check_lock, listener, env,
                 status_out>>

\* lines 94-101: the interface scan, then _has_internet (lines 49-58), which
\* counts one API call whatever the number of attempts
Probe(t) ==
  /\ pc[t] = "probe"
  /\ \E active_vpn \in ScanResults, r \in ProbeResults :
       loc' = [loc EXCEPT !.active_vpn = active_vpn,
                          !.is_online = r.online]
  /\ api_count' = TrackApi(api_count)
  /\ api_log' = Append(api_log, api_count')
  /\ pc' = [pc EXCEPT ![t] = "classify"]
  /\ UNCHANGED <<enabled, last_status, is_resolving, check_lock, listener, env,
                 status_out>>

\* lines 103-113: classify, compare with last_status, decide whether to emit
ClassifyStep(t) ==
  /\ pc[t] = "classify"
  /\ LET current_status == Classify(loc.active_vpn, loc.is_online)
         state_changed == current_status # last_status
     IN /\ loc' = [loc EXCEPT !.current_status = current_status,
                              !.state_changed = state_changed]
        /\ pc' = [pc EXCEPT ![t] =
                    IF ShouldEmit(state_changed, is_resolving, forced_check(t))
                      THEN "set_last" ELSE "finish"]
  /\ UNCHANGED <<session, check_lock, listener, env, outputs>>

\* line 114
SetLast(t) ==
  /\ pc[t] = "set_last"
  /\ last_status' = loc.current_status
  /\ pc' = [pc EXCEPT ![t] = "clear"]
  /\ UNCHANGED <<enabled, is_resolving, api_count, check_lock, listener, loc,
                 env, outputs>>

\* variant: line 115 left out
ClearResolvingSkipped(t) ==
  /\ pc[t] = "clear"
  /\ pc' = [pc EXCEPT ![t] = "emit"]
  /\ UNCHANGED <<session, check_lock, listener, loc, env, outputs>>

\* line 115
ClearResolving(t) ==
  /\ pc[t] = "clear"
  /\ is_resolving' = FALSE
  /\ pc' = [pc EXCEPT ![t] = "emit"]
  /\ UNCHANGED <<enabled, last_status, api_count, check_lock, listener, loc,
                 env, outputs>>

\* line 116
EmitStatus(t) ==
  /\ pc[t] = "emit"
  /\ status_out' = loc.current_status
  /\ loc' = [loc EXCEPT !.emitted = @ + 1]
  /\ pc' = [pc EXCEPT ![t] = "finish"]
  /\ UNCHANGED <<session, check_lock, listener, env, api_log>>

\* lines 118-128: when the pass has emitted, fetch the public IP if line 119
\* says so (_get_public_ip, lines 38-46: one API call) and write the
\* "STATUS:" log line; then arm the 0.2 s notification Timer if line 125 says so
Finish(t) ==
  /\ pc[t] = "finish"
  /\ LET fetch == /\ loc.emitted > 0
                  /\ ShouldFetchIp(loc.current_status, source(t), loc.is_online)
     IN /\ api_count' = IF fetch THEN TrackApi(api_count) ELSE api_count
        /\ api_log' = IF fetch THEN Append(api_log, api_count') ELSE api_log
        /\ loc' = [loc EXCEPT
                     !.fetched = fetch,
                     !.logged = loc.emitted > 0,
                     !.armed = ShouldNotify(loc.current_status,
                                               loc.state_changed, forced_check(t))]
  /\ cleared' = FALSE
  /\ pc' = [pc EXCEPT ![t] = "release"]
  /\ UNCHANGED <<enabled, last_status, is_resolving, check_lock, debounce_timer,
                 timers, lpc, nlines, unbroken, env, status_out>>

\* an exception raised by the statement the thread is at, inside the try
\* block; line 130 catches it
Raise(t) ==
  /\ pc[t] \in RaisingPcs
  /\ Events < MaxEvents
  /\ failures' = failures + 1
  /\ loc' = [loc EXCEPT !.failed = TRUE]
  /\ pc' = [pc EXCEPT ![t] = "x131"]
  /\ UNCHANGED <<session, check_lock, listener, toggles, manuals, outputs>>

\* variant: line 132 left out
HandlerKeepResolving(t) ==
  /\ pc[t] = "x131"
  /\ loc' = [loc EXCEPT !.critical = TRUE]
  /\ pc' = [pc EXCEPT ![t] = "x133"]
  /\ UNCHANGED <<session, check_lock, listener, env, outputs>>

\* lines 131-132: the "CRITICAL ERROR" log line, then is_resolving = False
HandlerClear(t) ==
  /\ pc[t] = "x131"
  /\ loc' = [loc EXCEPT !.critical = TRUE]
  /\ is_resolving' = FALSE
  /\ pc' = [pc EXCEPT ![t] = "x133"]
  /\ UNCHANGED <<enabled, last_status, api_count, check_lock, listener, env,
                 outputs>>

\* line 133
HandlerEmit(t) ==
  /\ pc[t] = "x133"
  /\ status_out' = "red"
  /\ loc' = [loc EXCEPT !.red = TRUE]
  /\ pc' = [pc EXCEPT ![t] = "release"]
  /\ UNCHANGED <<session, check_lock, listener, env, api_log>>

\* variant: the lock is not released on leaving
ReleaseKeepingLock(t) ==
  /\ pc[t] = "release"
  /\ pc' = [pc EXCEPT ![t] = "off"]
  /\ loc' = LocInit
  /\ UNCHANGED <<session, check_lock, listener, env, outputs>>

\* leaving the with block: the lock is released and the thread ends
Release(t) ==
  /\ pc[t] = "release"
  /\ check_lock' = NoThread
  /\ pc' = [pc EXCEPT ![t] = "off"]
  /\ loc' = LocInit
  /\ UNCHANGED <<session, listener, env, outputs>>

(* -------------------------------------------------------- Event Listener *)
PendingTimers == {k \in 1..MaxEvents : timers[k] = "pending"}

\* lines 81-82: a new Timer for the line just handled, started
Armed == [timers EXCEPT ![nlines] = "pending"]

\* variant: line 73 left out
ListenReadWhenDisabled ==
  /\ lpc = "read"
  /\ Events < MaxEvents
  /\ nlines' = nlines + 1
  /\ lpc' = "check"
  /\ timers' = IF debounce_timer # 0 /\ timers[debounce_timer] = "pending"
                 THEN [timers EXCEPT ![debounce_timer] = "cancelled"]
                 ELSE timers
  /\ unbroken' = (unbroken /\ ~(debounce_timer # 0
                                 /\ timers[debounce_timer] = "fired"))
  /\ UNCHANGED <<session, check_lock, debounce_timer, cleared, pc, loc, env,
                 outputs>>

\* variant: line 76 left out
ListenReadKeepingTimer ==
  /\ lpc = "read"
  /\ Events < MaxEvents
  /\ nlines' = nlines + 1
  /\ IF enabled
       THEN /\ lpc' = "check"
            /\ unbroken' = (unbroken /\ ~(debounce_timer # 0
                                           /\ timers[debounce_timer] = "fired"))
       ELSE UNCHANGED <<lpc, unbroken>>
  /\ UNCHANGED <<session, check_lock, debounce_timer, timers, cleared, pc, loc,
                 env, outputs>>

\* lines 72-76: read a line that holds a keyword of line 75 (on any other
\* line the loop does nothing); skip it when disabled; otherwise cancel the
\* Timer self._debounce_timer refers to (cancel() stops only a Timer that has
\* not fired yet)
ListenRead ==
  /\ lpc = "read"
  /\ Events < MaxEvents
  /\ nlines' = nlines + 1
  /\ IF enabled
       THEN /\ lpc' = "check"
            /\ timers' = IF debounce_timer # 0 /\ timers[debounce_timer] = "pending"
                           THEN [timers EXCEPT ![debounce_timer] = "cancelled"]
                           ELSE timers
            /\ unbroken' = (unbroken /\ ~(debounce_timer # 0
                                           /\ timers[debounce_timer] = "fired"))
       ELSE UNCHANGED <<lpc, timers, unbroken>>
  /\ UNCHANGED <<session, check_lock, debounce_timer, cleared, pc, loc, env,
                 outputs>>

\* variant: lines 81-82 moved under the if of line 77
ListenCheckNoRearm ==
  /\ lpc = "check"
  /\ lpc' = IF ~is_resolving THEN "set" ELSE "read"
  /\ UNCHANGED <<session, check_lock, debounce_timer, timers, nlines, unbroken,
                 cleared, pc, loc, env, outputs>>

\* line 77, then line 78 (emit 'yellow') when not resolving, else lines 81-82
ListenCheck ==
  /\ lpc = "check"
  /\ IF ~is_resolving
       THEN /\ lpc' = "set"
            /\ UNCHANGED <<timers, debounce_timer>>
       ELSE /\ lpc' = "read"
            /\ timers' = Armed
            /\ debounce_timer' = nlines
  /\ UNCHANGED <<session, check_lock, nlines, unbroken, cleared, pc, loc, env,
                 outputs>>

\* line 79
ListenSet ==
  /\ lpc = "set"
  /\ is_resolving' = TRUE
  /\ lpc' = "clear"
  /\ UNCHANGED <<enabled, last_status, api_count, check_lock, debounce_timer,
                 timers, nlines, unbroken, cleared, pc, loc, env, outputs>>

\* line 80, then lines 81-82
ListenClear ==
  /\ lpc = "clear"
  /\ last_status' = None
  /\ cleared' = TRUE
  /\ timers' = Armed
  /\ debounce_timer' = nlines
  /\ lpc' = "read"
  /\ UNCHANGED <<enabled, is_resolving, api_count, check_lock, nlines, unbroken,
                 pc, loc, env, outputs>>

\* lines 67-68: the Timer of line k fires and its thread calls
\* perform_check(source="Auto")
TimerFire(k) ==
  /\ timers[k] = "pending"
  /\ timers' = [timers EXCEPT ![k] = "fired"]
  /\ pc' = [pc EXCEPT ![<<"Auto", k>>] = "start"]
  /\ UNCHANGED <<session, check_lock, debounce_timer, lpc, nlines, unbroken,
                 cleared, loc, env, outputs>>

(* ----------------------------------------------------------- tray actions *)
\* line 203: "Check Now" starts a thread on perform_check(source="Manual")
CheckNow ==
  /\ Events < MaxEvents
  /\ manuals' = manuals + 1
  /\ pc' = [pc EXCEPT ![<<"Manual", manuals + 1>>] = "start"]
  /\ UNCHANGED <<session, check_lock, listener, loc, toggles, failures, outputs>>

\* toggle_monitoring, lines 250-259
ToggleMonitoring ==
  /\ Events < MaxEvents
  /\ toggles' = toggles + 1
  /\ enabled' = ~enabled
  /\ pc' = IF enabled' THEN [pc EXCEPT ![<<"Toggle", toggles + 1>>] = "start"]
           ELSE pc
  /\ UNCHANGED <<last_status, is_resolving, api_count, check_lock, listener, loc,
                 manuals, failures, outputs>>

(* ---------------------------------------------------------- specification *)
PassStep(t) ==
  \/ Start(t) \/ Enter(t) \/ Probe(t) \/ ClassifyStep(t) \/ SetLast(t)
  \/ ClearResolving(t) \/ EmitStatus(t) \/ Finish(t)
  \/ HandlerClear(t) \/ HandlerEmit(t) \/ Release(t)

ListenerStep == ListenCheck \/ ListenSet \/ ListenClear

Next ==
  \/ \E t \in Threads : PassStep(t)
  \/ \E t \in Threads : Raise(t)
  \/ ListenRead
  \/ ListenerStep
  \/ \E k \in 1..MaxEvents : TimerFire(k)
  \/ CheckNow
  \/ ToggleMonitoring

Spec == Init /\ [][Next]_vars

\* Scheduling: every started thread, the listener and every armed Timer keep
\* running; clicks, incoming lines and exceptions are not forced to happen.
Fairness ==
  /\ \A t \in Threads : WF_vars(PassStep(t))
  /\ WF_vars(ListenerStep)
  /\ \A k \in 1..MaxEvents : WF_vars(TimerFire(k))

FairSpec == Spec /\ Fairness

(* ------------------------------------------- the sensing part of one pass *)
\* The scan and the reachability check of one pass (lines 94-101) on a given
\* host and network: here loc holds the host (cfg), the outcome of each
\* urlopen attempt (outcome) and the two results; the pass is the Init pass,
\* inside the with block.
SensingInit ==
  /\ enabled = TRUE
  /\ last_status = None
  /\ is_resolving = TRUE
  /\ api_count = 0
  /\ check_lock = InitThread
  /\ debounce_timer = 0
  /\ timers = [k \in 1..MaxEvents |-> "unborn"]
  /\ lpc = "read"
  /\ nlines = 0
  /\ pc = [t \in Threads |-> IF t = InitThread THEN "probe" ELSE "off"]
  /\ loc \in {[cfg |-> cfg, outcome |-> outcome, at |-> "scan",
               active_vpn |-> FALSE,
               reach |-> [online |-> FALSE, attempts |-> 0, sleeps |-> 0]] :
                cfg \in NetConfigs, outcome \in AttemptOutcomes}
  /\ toggles = 0
  /\ manuals = 0
  /\ failures = 0
  /\ status_out = None
  /\ api_log = <<>>
  /\ unbroken = TRUE
  /\ cleared = FALSE

\* lines 94-100
ScanStep ==
  /\ loc.at = "scan"
  /\ loc' = [loc EXCEPT !.active_vpn = ScanActiveVpn(loc.cfg), !.at = "reach"]
  /\ UNCHANGED <<session, check_lock, listener, pc, env, outputs>>

\* line 101
ReachStep ==
  /\ loc.at = "reach"
  /\ loc' = [loc EXCEPT !.reach = HasInternet(loc.outcome), !.at = "done"]
  /\ UNCHANGED <<session, check_lock, listener, pc, env, outputs>>

SensingNext == ScanStep \/ ReachStep

SensingSpec == SensingInit /\ [][SensingNext]_vars

(* ------------------------------------------------------------ properties *)
Statuses == {"green", "blue", "red"}
Locked == {t \in Threads : pc[t] \in LockedPcs}
Waiting == {t \in Threads : pc[t] = "wait"}
\* passes that reached the end of the with block
Ending == {t \in Threads : pc[t] = "release"}
\* passes that reached it without an exception
Completed == {t \in Ending : ~loc.failed}

\* C1: at most one perform_check thread is inside the with block at any
\* instant, and it is the one recorded as holder of _check_lock
Serialization ==
  /\ Cardinality(Locked) <= 1
  /\ \A t \in Locked : check_lock = t
  /\ check_lock # NoThread => check_lock \in Locked

\* a pass is in the middle of its steps while another invocation waits
SerializationWitness ==
  \E t \in Threads : pc[t] = "set_last" /\ Cardinality(Waiting) >= 2

\* C2 (as claimed): an Auto pass that found is_resolving false at entry and
\* whose classification equals last_status emits nothing and logs nothing
Suppression ==
  \A t \in Completed :
    (source(t) = "Auto" /\ ~loc.res_at_entry /\ ~loc.state_changed)
      => (loc.emitted = 0 /\ ~loc.logged)

\* C3: a forced pass that completes has emitted exactly one classification,
\* the one it computed; line 114 wrote it to last_status and line 115 cleared
\* is_resolving on the way
ForcedEmission ==
  /\ [](\A t \in Completed :
          forced_check(t) =>
            /\ loc.emitted = 1
            /\ loc.current_status \in Statuses
            /\ status_out = loc.current_status
            /\ loc.logged)
  /\ [][\A t \in Threads :
          forced_check(t) =>
            /\ (pc[t] = "classify" /\ pc'[t] # "classify")
                 => pc'[t] \in {"set_last", "x131"}
            /\ (pc[t] = "set_last" /\ pc'[t] = "clear")
                 => last_status' = loc.current_status
            /\ (pc[t] = "clear" /\ pc'[t] = "emit") => ~is_resolving']_vars

\* a forced pass completes with a classification equal to the one last_status
\* held when it compared them
ForcedEmissionWitness ==
  \E t \in Completed :
    forced_check(t) /\ ~loc.state_changed /\ loc.emitted = 1

\* C5: the classification of a pass follows the table
\* (true,true) -> green, (false,true) -> blue, (*,false) -> red
ClassificationTable ==
  loc.current_status # None =>
    /\ (loc.active_vpn /\ loc.is_online) => loc.current_status = "green"
    /\ (~loc.active_vpn /\ loc.is_online) => loc.current_status = "blue"
    /\ ~loc.is_online => loc.current_status = "red"
    /\ loc.current_status \in Statuses

\* a pass classified a host with an active VPN interface and no connectivity
ClassificationTableWitness ==
  \E t \in Completed :
    loc.active_vpn /\ ~loc.is_online /\ loc.current_status = "red"

\* C6: a completed pass has raised api_count by 1 for the reachability check
\* plus 1 iff it fetched the public IP, and api_called has delivered the
\* totals 1, 2, 3, ... in order
ProbeAccounting ==
  /\ \A t \in Completed :
       api_count = loc.api_before + 1 + (IF loc.fetched THEN 1 ELSE 0)
  /\ api_log = [n \in 1..api_count |-> n]

\* a pass that fetched the IP completes after an earlier pass has counted too
ProbeAccountingWitness ==
  \E t \in Completed : loc.fetched /\ loc.api_before >= 1

ArmedLines == {k \in 1..MaxEvents : timers[k] # "unborn"}
FiredLines == {k \in 1..MaxEvents : timers[k] = "fired"}

\* C4: as long as every qualifying line was taken up before the Timer of the
\* line before it fired, at most one Timer has fired, it is the Timer of the
\* last line, and it did not fire before the listener armed it; once the lines
\* stop, exactly one has fired (one perform_check(source="Auto"))
DebounceCollapse ==
  /\ [](unbroken =>
          /\ Cardinality(FiredLines) <= 1
          /\ \A k \in FiredLines : \A j \in ArmedLines : j <= k)
  /\ [][\A k \in 1..MaxEvents :
          (timers[k] # "fired" /\ timers'[k] = "fired")
            => (pc[<<"Auto", k>>] = "off" /\ pc'[<<"Auto", k>>] = "start")]_vars
  /\ <>[]((unbroken /\ ArmedLines # {}) => Cardinality(FiredLines) = 1)

\* a burst of two lines: the first Timer was cancelled, the second has fired
DebounceCollapseWitness ==
  /\ unbroken
  /\ Cardinality(ArmedLines) >= 2
  /\ \E k \in FiredLines :
       k > 1 /\ pc[<<"Auto", k>>] = "start" /\ timers[k - 1] = "cancelled"

\* C7: a qualifying line read while monitoring is disabled arms no Timer,
\* leaves is_resolving and last_status alone and starts no pass; an
\* invocation that starts while disabled returns at line 87; the click that
\* re-enables starts perform_check(source="Toggle"), a forced source
DisableEnable ==
  [][/\ (~enabled /\ nlines' = nlines + 1) =>
          /\ timers' = timers
          /\ debounce_timer' = debounce_timer
          /\ lpc' = "read"
          /\ is_resolving' = is_resolving
          /\ last_status' = last_status
          /\ pc' = pc
     /\ \A t \in Threads :
          (~enabled /\ pc[t] = "start" /\ pc'[t] # "start") => pc'[t] = "off"
     /\ (~enabled /\ enabled') =>
          /\ pc'[<<"Toggle", toggles'>>] = "start"
          /\ forced_check(<<"Toggle", toggles'>>)]_vars

\* monitoring was disabled, a qualifying line came in and armed nothing, and
\* the re-enabling click has started the Toggle pass
DisableEnableWitness ==
  /\ enabled /\ toggles = 2 /\ nlines = 1
  /\ timers[1] = "unborn" /\ lpc = "read"
  /\ pc[<<"Toggle", 2>>] = "set_last"

\* C8 (as claimed): no invocation of perform_check returns without entering
\* the critical section
NoInvocationDropped ==
  [][\A t \in Threads : pc[t] = "start" => pc'[t] \in {"start", "wait"}]_vars

\* C8 (amended): an invocation that finds monitoring enabled at line 87 goes
\* on to the lock; one that waits for the lock leaves the wait only by
\* entering the with block, and leaves the with block only at its end; and
\* every invocation gets that far: in the end none is waiting or running
EnabledInvocationRuns ==
  /\ [][\A t \in Threads :
          /\ (enabled /\ pc[t] = "start") => pc'[t] \in {"start", "wait"}
          /\ pc[t] = "wait" => pc'[t] \in {"wait", "probe"}
          /\ (pc[t] \in LockedPcs /\ pc'[t] = "off") => pc[t] = "release"]_vars
  /\ <>[](\A t \in Threads : pc[t] = "off")

\* an invocation has run to the end while two others were queued behind it
EnabledInvocationRunsWitness ==
  \E t \in Completed : Cardinality(Waiting) >= 2

\* C9: a pass in which a statement of the try block raised logs the critical
\* entry, clears is_resolving at line 132, emits 'red' as its last status and
\* leaves the with block releasing the lock
FailureHandled ==
  /\ [](\A t \in Ending :
          loc.failed => (loc.critical /\ loc.red /\ status_out = "red"))
  /\ [][\A t \in Threads :
          /\ (pc[t] \in TryPcs /\ loc'.failed) => pc'[t] = "x131"
          /\ (pc[t] = "x131" /\ pc'[t] # "x131") => (~is_resolving' /\ pc'[t] = "x133")
          /\ (pc[t] = "x133" /\ pc'[t] # "x133") => pc'[t] = "release"
          /\ (pc[t] = "release" /\ pc'[t] # "release")
               => (check_lock' = NoThread /\ pc'[t] = "off")]_vars

\* a pass that had already emitted 'green' failed afterwards and ends on 'red',
\* with another invocation waiting for the lock
FailureHandledWitness ==
  \E t \in Ending :
    /\ loc.failed /\ loc.emitted = 1 /\ loc.current_status = "green"
    /\ Waiting # {}

\* nothing is running and nothing is scheduled
Quiescent ==
  /\ \A t \in Threads : pc[t] = "off"
  /\ lpc = "read"
  /\ PendingTimers = {}

\* C10 (as claimed): is_resolving never stays true: when every thread and
\* Timer has run, is_resolving is false
NeverStuckResolving == Quiescent => ~is_resolving

\* C10 (amended): while monitoring is enabled is_resolving never stays true:
\* it is cleared, with a status emitted, or monitoring gets disabled
NeverStuckWhileEnabled ==
  /\ []((Quiescent /\ enabled) => (~is_resolving /\ status_out \in Statuses))
  /\ (is_resolving /\ enabled) ~> (~is_resolving \/ ~enabled)

\* the listener marked the session resolving, and the Auto pass of its Timer
\* has cleared the flag and emitted
NeverStuckWhileEnabledWitness ==
  /\ enabled /\ ~is_resolving /\ nlines >= 1
  /\ \E k \in FiredLines :
       pc[<<"Auto", k>>] = "release" /\ loc.res_at_entry /\ loc.emitted = 1

\* C11 (as claimed): last_status, is_resolving and api_count change only in a
\* step of the thread that holds _check_lock
StateConfinement ==
  [][(last_status' # last_status \/ is_resolving' # is_resolving
        \/ api_count' # api_count)
       => \E t \in Threads : check_lock' = t /\ pc'[t] # pc[t]]_vars

\* C12: a pass arms the notification Timer only at line 125-128, after its
\* own emission of 'blue', and exactly when it classified 'blue' and
\* (state_changed or its source is Init, Manual or Toggle); state_changed is
\* the comparison with last_status made at line 110, before line 114
NotificationRule ==
  /\ [](\A t \in Ending :
          loc.armed =>
            /\ loc.current_status = "blue"
            /\ loc.state_changed \/ source(t) \in {"Init", "Manual", "Toggle"}
            /\ loc.emitted = 1
            /\ status_out = "blue")
  /\ [](\A t \in Completed :
          (loc.current_status = "blue"
             /\ (loc.state_changed \/ source(t) \in {"Init", "Manual", "Toggle"}))
            => loc.armed)
  /\ [][/\ \A t \in Threads :
             (pc[t] = "classify" /\ pc'[t] \in {"set_last", "finish"}) =>
               /\ loc'.state_changed = (loc'.current_status # last_status)
               /\ last_status' = last_status
        /\ (loc'.armed /\ ~loc.armed) =>
             \E t \in Threads : pc[t] = "finish" /\ pc'[t] = "release"]_vars

\* a Manual pass found the host Insecure as before and armed the notification
NotificationRuleWitness ==
  \E t \in Completed :
    source(t) = "Manual" /\ loc.current_status = "blue" /\ ~loc.state_changed
      /\ loc.armed

\* C13 (as claimed): a pass fetches the public IP only when it has emitted
\* and classified 'blue'
FetchOnlyInsecure ==
  \A t \in Ending :
    loc.fetched => (loc.emitted = 1 /\ loc.current_status = "blue")

\* C13 (amended): a pass fetches the public IP only after it has emitted, and
\* exactly when it classified 'blue' or it is a Manual pass that classified
\* 'green'; a pass that classified 'red' never fetches
FetchCondition ==
  /\ \A t \in Ending :
       /\ loc.fetched =>
            /\ loc.emitted = 1
            /\ \/ loc.current_status = "blue"
               \/ source(t) = "Manual" /\ loc.current_status = "green"
       /\ loc.current_status = "red" => ~loc.fetched
  /\ \A t \in Completed :
       (loc.current_status = "blue"
          \/ (source(t) = "Manual" /\ loc.current_status = "green"))
         => loc.fetched

\* a Manual pass classified 'green' and fetched; and the state where a Manual
\* pass classified 'red' and did not
FetchConditionWitness ==
  \E t \in Completed :
    source(t) = "Manual" /\ loc.current_status = "green" /\ loc.fetched

\* C14 (as claimed): on a qualifying line read while enabled the listener
\* cancels the pending Timer; if is_resolving is false it sets it and clears
\* last_status, so that the next pass to complete has state_changed true and
\* emits; if is_resolving is true it leaves both fields alone; either way it
\* ends with exactly one Timer pending, the one of this line, and there is
\* never more than one pending Timer
ListenerReaction ==
  /\ [](Cardinality(PendingTimers) <= 1)
  /\ [][/\ (lpc = "read" /\ lpc' = "check") => PendingTimers' = {}
        /\ (lpc = "check" /\ lpc' = "set") => ~is_resolving
        /\ (lpc = "set" /\ lpc' = "clear") => is_resolving'
        /\ (lpc = "clear" /\ lpc' = "read") =>
             (last_status' = None /\ PendingTimers' = {nlines})
        /\ (lpc = "check" /\ lpc' = "read") =>
             /\ is_resolving
             /\ is_resolving' = is_resolving /\ last_status' = last_status
             /\ PendingTimers' = {nlines}
        /\ \A t \in Threads :
             (cleared /\ pc[t] = "finish" /\ pc'[t] = "release") =>
               (loc.state_changed /\ loc.emitted = 1)]_vars

\* C19 (as claimed): an Auto pass arms the notification only if the
\* classification emitted last before the pass was not 'blue'
NoRepeatedAlarm ==
  \A t \in Completed :
    (source(t) = "Auto" /\ loc.armed) => loc.out_before # "blue"

\* C19 (amended): an Auto pass arms the notification only if it classified
\* 'blue' and last_status was not 'blue' when line 110 compared them
\* (it is None after line 80 has cleared it)
AlarmOnChange ==
  /\ [](\A t \in Ending :
          (source(t) = "Auto" /\ loc.armed) =>
            (loc.current_status = "blue" /\ loc.state_changed))
  /\ [][\A t \in Threads :
          (pc[t] = "classify" /\ pc'[t] \in {"set_last", "finish"}
             /\ last_status = "blue")
            => (loc'.state_changed <=> loc'.current_status # "blue")]_vars

\* the host was Insecure, a qualifying line came in, and the Auto pass found
\* it Insecure again and armed the notification again
AlarmOnChangeWitness ==
  \E t \in Completed :
    /\ source(t) = "Auto" /\ loc.armed
    /\ loc.out_before = "blue" /\ loc.current_status = "blue"

\* C17 (as claimed): whenever no pass is inside the with block, last_status
\* is None or the classification emitted last
NoPartialPass ==
  Locked = {} => (last_status = None \/ last_status = status_out)

\* C18 (as claimed): while monitoring is disabled no status event is emitted:
\* neither a classification (line 116), nor the handler's 'red' (line 133),
\* nor 'yellow' (lines 78 and 90)
DisabledIndicatorStable ==
  [][~enabled =>
       /\ \A t \in Threads :
            /\ ~(pc[t] = "emit" /\ pc'[t] = "finish")
            /\ ~(pc[t] = "x133" /\ pc'[t] = "release")
            /\ ~(pc[t] = "wait" /\ pc'[t] = "probe" /\ ~is_resolving)
       /\ ~(lpc = "check" /\ lpc' = "set")]_vars

\* C20: the Auto pass of line k is started by the Timer armed for line k, so
\* after line k was read; and once the listener has taken up line k, unless
\* monitoring gets disabled, the Auto pass of line k or of a later line runs
\* to the end of the with block: with the classification of its own scan
\* emitted, or through the handler of line 130 if it raised
NoChangeMissed ==
  /\ [][\A k \in 1..MaxEvents :
          (pc[<<"Auto", k>>] = "off" /\ pc'[<<"Auto", k>>] = "start")
            => (k <= nlines /\ timers[k] = "pending")]_vars
  /\ [](\A t \in Completed :
          source(t) = "Auto" =>
            (loc.emitted = 1 /\ status_out = loc.current_status))
  /\ \A k \in 1..MaxEvents :
       (lpc = "check" /\ nlines = k)
         ~> (~enabled \/ \E j \in k..MaxEvents : pc[<<"Auto", j>>] = "release")

\* the only line was read before the Init pass reached line 115; the Auto
\* pass of its Timer ran after the Init pass and completed, finding the
\* classification the Init pass had found
NoChangeMissedWitness ==
  /\ <<"Auto", 1>> \in Completed
  /\ ~loc.res_at_entry /\ ~loc.state_changed
  /\ nlines = 1 /\ manuals = 0 /\ toggles = 0 /\ failures = 0

\* the urlopen attempts a reachability check has made, and the failed ones
AttemptsMade == 1..loc.reach.attempts
FailedAttempts == {i \in AttemptsMade : ~loc.outcome[i]}

\* C15: _has_internet makes between 1 and 3 attempts, in order; it returns
\* True at the first attempt that succeeds and makes no attempt after it; it
\* returns False exactly when the three attempts fail; it sleeps once after
\* each failed attempt except the third; so it ends after at most 3 attempts
\* and 2 sleeps
ReachabilityRetry ==
  loc.at = "done" =>
    /\ loc.reach.attempts \in 1..3
    /\ loc.reach.online <=> \E i \in 1..3 : loc.outcome[i]
    /\ loc.reach.online =>
         /\ loc.outcome[loc.reach.attempts]
         /\ \A i \in 1..(loc.reach.attempts - 1) : ~loc.outcome[i]
    /\ ~loc.reach.online <=> FailedAttempts = {1, 2, 3}
    /\ loc.reach.sleeps = Cardinality(FailedAttempts \ {3})
    /\ loc.reach.sleeps <= 2

\* the first two attempts failed and the third succeeded: True after two sleeps
ReachabilityRetryWitness ==
  /\ loc.at = "done"
  /\ loc.outcome = <<FALSE, FALSE, TRUE>>
  /\ loc.reach = [online |-> TRUE, attempts |-> 3, sleeps |-> 2]

\* the interfaces of the host that os.listdir returned and whose names are
\* VPN candidates
Candidates ==
  IF loc.cfg.listable THEN DOMAIN loc.cfg.state \cap {tun0, wg0, ppp0} ELSE {}

\* C16 (as claimed): the scan result is true iff some candidate interface has
\* operstate 'up'
ScanUpOnly ==
  loc.at # "scan" =>
    (loc.active_vpn <=> \E n \in Candidates : loc.cfg.state[n] = "up")

\* C16 (amended): the scan result is true iff some candidate interface has an
\* operstate that could be read and is not 'down' ('up' or 'unknown'); a
\* candidate that is down or unreadable, a non-candidate interface and a
\* failed os.listdir give false
ScanNotDown ==
  loc.at # "scan" =>
    /\ loc.active_vpn <=>
         \E n \in Candidates : loc.cfg.state[n] \in {"up", "unknown"}
    /\ (\A n \in Candidates : loc.cfg.state[n] \in {"down", "unreadable"})
         => ~loc.active_vpn
    /\ ~loc.cfg.listable => ~loc.active_vpn

\* wg0 reports 'unknown' next to eth0 'up': the scan says active
ScanNotDownWitness ==
  /\ loc.at = "done"
  /\ loc.cfg.listable
  /\ DOMAIN loc.cfg.state = {wg0, eth0}
  /\ loc.cfg.state[wg0] = "unknown" /\ loc.cfg.state[eth0] = "up"
  /\ loc.active_vpn

====
